---- MODULE Spec2Model ----
(***************************************************************************)
(* Marketplace accounts service (Django REST): CustomUser / Buyer / Seller *)
(* / Shop aggregates and the per-buyer "default" flag on                   *)
(* BuyerShippingAddress and BuyerPaymentMethod rows.                       *)
(*                                                                         *)
(* The store runs in Django's autocommit mode: settings.DATABASES sets no  *)
(* ATOMIC_REQUESTS and no view or serializer opens transaction.atomic(),   *)
(* so every ORM statement (save, create, QuerySet.update, delete) commits  *)
(* on its own and is visible to every other request as soon as it returns. *)
(***************************************************************************)
EXTENDS Integers, Sequences, FiniteSets, TLC

VARIABLES
    customuser,   \* CustomUser table: pk -> row
    buyer,        \* Buyer table: pk -> row
    seller,       \* Seller table: pk -> row
    shop,         \* Shop table: pk -> row
    location,     \* Country / Region / Province / City / Barangay tables: level -> (pk -> row)
    objects,      \* BuyerShippingAddress / BuyerPaymentMethod tables: model -> (pk -> row)
    next_pk,      \* the auto-increment primary key sequence of every table
    pc,           \* position of each in-flight set_default request
    call,         \* locals of each in-flight set_default request
    status,       \* HTTP status each set_default request answered with (0: none yet)
    last          \* what the last aggregate request did and answered

vars == <<customuser, buyer, seller, shop, location, objects, next_pk, pc, call, status, last>>

----------------------------------------------------------------------------
(* Bounds of the model *)

\* Rows ever inserted into the two default-carrying tables together.
MaxRows == 3

\* Concurrent set_default requests.
Procs == {1, 2}

\* The Buyer rows (and their CustomUser rows) that exist when the
\* default-selector specifications start.
Buyers == {1, 2}

DefaultModels == {"BuyerShippingAddress", "BuyerPaymentMethod"}

Models == {"Country", "Region", "Province", "City", "Barangay",
           "CustomUser", "Buyer", "Seller", "Shop"} \cup DefaultModels

\* Python's None for a primary key / query parameter that was not given.
NoPk == 0

\* The five levels of the address hierarchy, root first.
Levels == <<"Country", "Region", "Province", "City", "Barangay">>

LevelSet == {Levels[i] : i \in DOMAIN Levels}

\* The five nullable location foreign keys of a row (country, region,
\* province, city, barangay), all NULL.
NoLocation == [l \in LevelSet |-> NoPk]

----------------------------------------------------------------------------
(* Mobile numbers: strings as sequences of characters *)

Digits == {"0", "1", "2", "3", "4", "5", "6", "7", "8", "9"}

Str09171234567 == <<"0", "9", "1", "7", "1", "2", "3", "4", "5", "6", "7">>
Str09181234567 == <<"0", "9", "1", "8", "1", "2", "3", "4", "5", "6", "7">>
Str9171234567 == <<"9", "1", "7", "1", "2", "3", "4", "5", "6", "7">>
Str091712345678 == <<"0", "9", "1", "7", "1", "2", "3", "4", "5", "6", "7", "8">>
Str0917abc4567 == <<"0", "9", "1", "7", "a", "b", "c", "4", "5", "6", "7">>

\* str.isdigit(): non-empty and every character a digit
isdigit(s) == Len(s) > 0 /\ \A i \in 1..Len(s) : s[i] \in Digits

\* str.startswith('0')
startswith0(s) == Len(s) > 0 /\ s[1] = "0"

----------------------------------------------------------------------------
(* Scoped default selector: BuyerShippingAddressViewSet / BuyerPaymentMethodViewSet *)

NoInstance == [buyer |-> NoPk, is_default |-> FALSE, location |-> NoLocation]

NoCall == [model |-> "None", pk |-> NoPk, user |-> NoPk, instance |-> NoInstance]

\* str.lower() on the values the is_default query parameter is drawn from
lower(s) == IF s = "True" THEN "true" ELSE s

\* The rows of model m owned by buyer b that carry is_default = True, in table set o.
Defaults(o, m, b) == {k \in DOMAIN o[m] : o[m][k].buyer = b /\ o[m][k].is_default}

\* get_queryset(): every row, narrowed by the optional ?buyer= and ?is_default=
\* query parameters.  request.user is only used for the log line.
get_queryset(m, qbuyer, qdefault) ==
    LET all == DOMAIN objects[m]
        byBuyer == IF qbuyer # NoPk
                   THEN {k \in all : objects[m][k].buyer = qbuyer}
                   ELSE all
    IN  IF qdefault # "None"
        THEN {k \in byBuyer : objects[m][k].is_default = (lower(qdefault) = "true")}
        ELSE byBuyer

\* Mutant of clear_defaults: the filter on the buyer is missing.
clear_defaults_every_buyer(o, m, b) ==
    [o EXCEPT ![m] = [k \in DOMAIN o[m] |-> [o[m][k] EXCEPT !.is_default = FALSE]]]

\* Mutant of clear_defaults: the clearing statement is missing.
clear_defaults_skipped(o, m, b) == o

\* QuerySet.filter(buyer=b).update(is_default=False)
clear_defaults(o, m, b) ==
    [o EXCEPT ![m] = [k \in DOMAIN o[m] |->
        IF o[m][k].buyer = b THEN [o[m][k] EXCEPT !.is_default = FALSE] ELSE o[m][k]]]

\* Model.save() of a loaded instance: UPDATE of every column of the row with
\* that pk and, when no such row is left, INSERT of it.
save_instance(o, m, pk, inst) ==
    [o EXCEPT ![m] = [k \in DOMAIN o[m] \cup {pk} |-> IF k = pk THEN inst ELSE o[m][k]]]

\* set_default, first statement: shipping_address = self.get_object()
set_default_get_object(p) ==
    /\ pc[p] = "idle"
    /\ \E m \in DefaultModels, pk \in 1..MaxRows, u \in DOMAIN customuser,
          qbuyer \in Buyers \cup {NoPk}, qdefault \in {"None", "True", "false"} :
          IF pk \in get_queryset(m, qbuyer, qdefault)
          THEN /\ call' = [call EXCEPT ![p] =
                     [model |-> m, pk |-> pk, user |-> u, instance |-> objects[m][pk]]]
               /\ pc' = [pc EXCEPT ![p] = "update"]
               /\ UNCHANGED status
          ELSE \* Http404 from get_object_or_404
               /\ call' = [call EXCEPT ![p] =
                     [model |-> m, pk |-> pk, user |-> u, instance |-> NoInstance]]
               /\ pc' = [pc EXCEPT ![p] = "done"]
               /\ status' = [status EXCEPT ![p] = 404]
    /\ UNCHANGED <<location, customuser, buyer, seller, shop, objects, next_pk, last>>

\* set_default, second statement: objects.filter(buyer=instance.buyer).update(is_default=False)
set_default_update(p) ==
    /\ pc[p] = "update"
    /\ objects' = clear_defaults(objects, call[p].model, call[p].instance.buyer)
    /\ pc' = [pc EXCEPT ![p] = "save"]
    /\ UNCHANGED <<location, customuser, buyer, seller, shop, next_pk, call, status, last>>

\* set_default, third statement: instance.is_default = True; instance.save(); Response 200
set_default_save(p) ==
    /\ pc[p] = "save"
    /\ LET inst == [call[p].instance EXCEPT !.is_default = TRUE]
       IN  /\ objects' = save_instance(objects, call[p].model, call[p].pk, inst)
           /\ call' = [call EXCEPT ![p].instance = inst]
    /\ pc' = [pc EXCEPT ![p] = "done"]
    /\ status' = [status EXCEPT ![p] = 200]
    /\ UNCHANGED <<location, customuser, buyer, seller, shop, next_pk, last>>

\* The response has been sent: the worker is free for the next request.
set_default_return(p) ==
    /\ pc[p] = "done"
    /\ pc' = [pc EXCEPT ![p] = "idle"]
    /\ call' = [call EXCEPT ![p] = NoCall]
    /\ status' = [status EXCEPT ![p] = 0]
    /\ UNCHANGED <<location, customuser, buyer, seller, shop, objects, next_pk, last>>

RowsInserted == (next_pk["BuyerShippingAddress"] - 1) + (next_pk["BuyerPaymentMethod"] - 1)

\* perform_create: serializer.save() inserts the row as posted (fields = '__all__',
\* so buyer and is_default are both taken from the request).
perform_create(m, b, d) ==
    /\ RowsInserted < MaxRows
    /\ b \in DOMAIN buyer
    /\ objects' = [objects EXCEPT ![m] =
           [k \in DOMAIN objects[m] \cup {next_pk[m]} |->
               IF k = next_pk[m]
               THEN [buyer |-> b, is_default |-> d, location |-> NoLocation]
               ELSE objects[m][k]]]
    /\ next_pk' = [next_pk EXCEPT ![m] = @ + 1]
    /\ UNCHANGED <<location, customuser, buyer, seller, shop, pc, call, status, last>>

\* perform_update: serializer.save() writes the posted fields onto the row.
perform_update(m, pk, b, d) ==
    /\ pk \in DOMAIN objects[m]
    /\ b \in DOMAIN buyer
    /\ objects' = [objects EXCEPT ![m][pk] = [@ EXCEPT !.buyer = b, !.is_default = d]]
    /\ UNCHANGED <<location, customuser, buyer, seller, shop, next_pk, pc, call, status, last>>

\* Mutant of perform_destroy: every row of the row's buyer is deleted.
perform_destroy_buyer_rows(m, pk) ==
    /\ pk \in DOMAIN objects[m]
    /\ objects' = [objects EXCEPT ![m] =
           [k \in {j \in DOMAIN objects[m] : objects[m][j].buyer # objects[m][pk].buyer}
               |-> objects[m][k]]]
    /\ UNCHANGED <<location, customuser, buyer, seller, shop, next_pk, pc, call, status, last>>

\* perform_destroy: instance.delete()
perform_destroy(m, pk) ==
    /\ pk \in DOMAIN objects[m]
    /\ objects' = [objects EXCEPT ![m] = [k \in DOMAIN objects[m] \ {pk} |-> objects[m][k]]]
    /\ UNCHANGED <<location, customuser, buyer, seller, shop, next_pk, pc, call, status, last>>

----------------------------------------------------------------------------
(* Identity and role aggregates: CustomUser, Buyer, Seller, Shop *)

\* CustomUser rows the aggregate specification may insert.
MaxUsers == 2

\* len(mobile_no) != 11 in CustomUserManager.create_user
MobileLength == 11

\* CustomUser.mobile_no = CharField(max_length=15, unique=True)
MobileMaxLength == 15

USER_TYPE_CHOICES == {"superadmin", "admin", "seller", "buyer"}

SHOP_TYPE_CHOICES == {"water", "laundry", "rice", "groceries", "other"}

\* Request values the model draws from.
Mobiles == {Str09171234567, Str09181234567, Str9171234567, Str091712345678,
            Str0917abc4567}
Passwords == {"securepass123", " securepass123", ""}
UserData(user_types) == [mobile_no : Mobiles, password : Passwords, user_type : user_types]
BuyerData == [preferred_payment_method : {"gcash", "bank_card"}]
SellerData == [is_free_plan : {TRUE}]
ShopData == [shop_type : {"water", "bakery"}]
NoShopData == [shop_type |-> "None"]

\* str.strip() on the passwords the model draws from.
strip(s) == IF s = " securepass123" THEN "securepass123" ELSE s

\* len() and str.isdigit() on the passwords the model draws from.
password_len(s) ==
    CASE s = "" -> 0
      [] s = "123" -> 3
      [] s = "newpass456" -> 10
      [] s = "securepass123" -> 13
      [] s = " securepass123" -> 14
password_isdigit(s) == s = "123"

\* AUTH_PASSWORD_VALIDATORS: MinimumLengthValidator with min_length 8 and
\* NumericPasswordValidator, as django.contrib.auth.password_validation
\* validate_password would apply them to a raw password.
PasswordMinLength == 8
validate_password(password) ==
    /\ password_len(password) >= PasswordMinLength
    /\ ~password_isdigit(password)

\* The password column is an encoded string "<algorithm>$<salted hash>",
\* modelled as the sequence of its $-separated parts; a raw password written
\* into the column is the one-part string <<raw>>.
\* AbstractBaseUser.set_password: the stored value is the hash, not the password.
make_password(raw) == <<"pbkdf2_sha256", raw>>

\* Mutant of check_password: any encoded value verifies.
check_password_any(raw, encoded) == Len(encoded) = 2

\* AbstractBaseUser.check_password: the encoded value names a known hasher and
\* the hash of raw under it equals the stored hash.
check_password(raw, encoded) ==
    Len(encoded) = 2 /\ encoded[1] = "pbkdf2_sha256" /\ encoded[2] = raw

\* error is the "error" message of the response body, "None" when it has none.
\* model names the table a destroy request addressed.
NoLast == [op |-> "None", status |-> 0, user |-> NoPk, profile |-> NoPk, shop |-> NoPk,
           error |-> "None", model |-> "None"]

\* Add row r under primary key k to table t.
insert(t, k, r) == [j \in DOMAIN t \cup {k} |-> IF j = k THEN r ELSE t[j]]

\* CustomUserCreateSerializer / CustomUserSerializer field validation of
\* mobile_no: a non-blank CharField of at most 15 characters with the
\* UniqueValidator of the unique column (the row being updated excepted).
mobile_no_is_valid(mobile_no, instance) ==
    /\ Len(mobile_no) > 0
    /\ Len(mobile_no) <= MobileMaxLength
    /\ \A k \in DOMAIN customuser \ {instance} : customuser[k].mobile_no # mobile_no

\* CustomUserCreateSerializer.is_valid() on a full payload; password is a
\* CharField with the default trim_whitespace=True, blank not allowed.
user_is_valid(data) ==
    /\ mobile_no_is_valid(data.mobile_no, NoPk)
    /\ strip(data.password) # ""
    /\ data.user_type \in USER_TYPE_CHOICES

\* The checks of CustomUserManager.create_user that raise ValueError
create_user_raises(mobile_no, password) ==
    \/ Len(mobile_no) = 0
    \/ ~isdigit(mobile_no)
    \/ ~startswith0(mobile_no)
    \/ Len(mobile_no) # MobileLength
    \/ strip(password) = ""

\* The row user = self.model(mobile_no=..., **extra_fields); user.set_password(password)
\* built from validated data: the password has been stripped by its CharField,
\* is_active takes the column default True, no location reference is given.
new_user(data) ==
    [mobile_no |-> data.mobile_no, password |-> make_password(strip(data.password)),
     user_type |-> data.user_type, is_active |-> TRUE, location |-> NoLocation]

\* What a create request leaves behind: the tables after it, the status it
\* answers with and the primary keys of the rows it inserted.
Outcome(st, cu, by, sl, sh, u, pr, h) ==
    [status |-> st, customuser |-> cu, buyer |-> by, seller |-> sl, shop |-> sh,
     user_pk |-> u, profile_pk |-> pr, shop_pk |-> h]

\* The sequences after inserting the rows an outcome names.
advance(r, profile_model) ==
    [m \in Models |->
        IF m = "CustomUser" /\ r.user_pk # NoPk THEN next_pk[m] + 1
        ELSE IF m = profile_model /\ r.profile_pk # NoPk THEN next_pk[m] + 1
        ELSE IF m = "Shop" /\ r.shop_pk # NoPk THEN next_pk[m] + 1
        ELSE next_pk[m]]

Answer(op, r) ==
    last' = [op |-> op, status |-> r.status, user |-> r.user_pk,
             profile |-> r.profile_pk, shop |-> r.shop_pk, error |-> "None",
             model |-> "None"]

\* register_user: CustomUserCreateSerializer(data).is_valid(), then
\* CustomUserCreateSerializer.create: CustomUser(**validated_data),
\* set_password, save.
register_user_outcome(data) ==
    LET u == next_pk["CustomUser"] IN
    IF user_is_valid(data)
    THEN Outcome(201, insert(customuser, u, new_user(data)), buyer, seller, shop,
                 u, NoPk, NoPk)
    ELSE Outcome(400, customuser, buyer, seller, shop, NoPk, NoPk, NoPk)

register_user(data) ==
    LET r == register_user_outcome(data) IN
    /\ next_pk["CustomUser"] <= MaxUsers
    /\ customuser' = r.customuser
    /\ next_pk' = advance(r, "None")
    /\ Answer("register_user", r)
    /\ UNCHANGED <<location, buyer, seller, shop, objects, pc, call, status>>

\* BuyerViewSet.create: BuyerSerializer.is_valid(), perform_create ->
\* BuyerSerializer.create: create_user, then Buyer.objects.create.
\* db_error names the INSERT at which the database raises, "None" for none.
\* Every statement commits on its own, so what was inserted before the
\* statement that raises stays.
BuyerSerializer_create(data, attrs, db_error) ==
    LET u == next_pk["CustomUser"]
        b == next_pk["Buyer"]
        users == insert(customuser, u, new_user(data))
    IN
    IF ~user_is_valid(data)
    THEN Outcome(400, customuser, buyer, seller, shop, NoPk, NoPk, NoPk)
    ELSE IF create_user_raises(data.mobile_no, data.password) \/ db_error = "CustomUser"
    THEN Outcome(500, customuser, buyer, seller, shop, NoPk, NoPk, NoPk)
    ELSE IF db_error = "Buyer"
    THEN Outcome(500, users, buyer, seller, shop, u, NoPk, NoPk)
    ELSE Outcome(201, users,
                 insert(buyer, b, [user |-> u,
                     preferred_payment_method |-> attrs.preferred_payment_method]),
                 seller, shop, u, b, NoPk)

buyer_create(data, attrs, db_error) ==
    LET r == BuyerSerializer_create(data, attrs, db_error) IN
    /\ next_pk["CustomUser"] <= MaxUsers
    /\ customuser' = r.customuser
    /\ buyer' = r.buyer
    /\ next_pk' = advance(r, "Buyer")
    /\ Answer("BuyerSerializer.create", r)
    /\ UNCHANGED <<location, seller, shop, objects, pc, call, status>>

\* Mutant of SellerSerializer_is_valid: shop = ShopCreateSerializer() without
\* required=False, so a payload without a shop is rejected.
SellerSerializer_is_valid_shop_required(data, shop_data) ==
    /\ user_is_valid(data)
    /\ shop_data # NoShopData /\ shop_data.shop_type \in SHOP_TYPE_CHOICES

\* SellerSerializer.is_valid(): the nested user payload and, when present, the
\* nested shop payload (shop = ShopCreateSerializer(required=False)).
SellerSerializer_is_valid(data, shop_data) ==
    /\ user_is_valid(data)
    /\ shop_data = NoShopData \/ shop_data.shop_type \in SHOP_TYPE_CHOICES

\* Mutant of has_shop: the key is tested after it was popped.
has_shop_after_pop(shop_data) == FALSE

\* 'shop' in validated_data
has_shop(shop_data) == shop_data # NoShopData

\* SellerViewSet.create: SellerSerializer.is_valid(), perform_create ->
\* SellerSerializer.create: create_user, Seller.objects.create and, when the
\* payload carries a shop, Shop.objects.create.  The shop key is still in
\* validated_data when the Seller row is built; Model.__init__ takes it for
\* the reverse relation of Shop.seller and keeps it as a plain attribute, so
\* no column of the Seller row comes from it.
SellerSerializer_create(data, attrs, shop_data, db_error) ==
    LET u == next_pk["CustomUser"]
        s == next_pk["Seller"]
        h == next_pk["Shop"]
        users == insert(customuser, u, new_user(data))
        sellers == insert(seller, s, [user |-> u, is_free_plan |-> attrs.is_free_plan])
    IN
    IF ~SellerSerializer_is_valid(data, shop_data)
    THEN Outcome(400, customuser, buyer, seller, shop, NoPk, NoPk, NoPk)
    ELSE IF create_user_raises(data.mobile_no, data.password) \/ db_error = "CustomUser"
    THEN Outcome(500, customuser, buyer, seller, shop, NoPk, NoPk, NoPk)
    ELSE IF db_error = "Seller"
    THEN Outcome(500, users, buyer, seller, shop, u, NoPk, NoPk)
    ELSE IF ~has_shop(shop_data)
    THEN Outcome(201, users, buyer, sellers, shop, u, s, NoPk)
    ELSE IF db_error = "Shop"
    THEN Outcome(500, users, buyer, sellers, shop, u, s, NoPk)
    ELSE Outcome(201, users, buyer, sellers,
                 insert(shop, h, [seller |-> s, shop_type |-> shop_data.shop_type,
                                  location |-> NoLocation]),
                 u, s, h)

seller_create(data, attrs, shop_data, db_error) ==
    LET r == SellerSerializer_create(data, attrs, shop_data, db_error) IN
    /\ next_pk["CustomUser"] <= MaxUsers
    /\ customuser' = r.customuser
    /\ seller' = r.seller
    /\ shop' = r.shop
    /\ next_pk' = advance(r, "Seller")
    /\ Answer("SellerSerializer.create", r)
    /\ UNCHANGED <<location, buyer, objects, pc, call, status>>

\* A key that the payload of an update does not carry.
NoMobile == <<"None">>
NoPassword == "None"

\* BooleanField.to_internal_value on the JSON values the model draws from.
to_bool(v) == v = "true"

\* update_user_profile: CustomUserSerializer(request.user, data, partial=True);
\* ModelSerializer.update sets the validated attributes and saves.  mobile_no
\* and is_active are writable fields of the serializer; password is not one of
\* its fields, so a password key in the payload is dropped by validation.
\* The view is IsAuthenticated: every configured authentication class refuses
\* a user whose is_active is False.
update_user_profile(u, mobile_no, is_active) ==
    /\ u \in DOMAIN customuser
    /\ customuser[u].is_active
    /\ IF mobile_no = NoMobile \/ mobile_no_is_valid(mobile_no, u)
       THEN /\ customuser' = [customuser EXCEPT ![u] =
                   [@ EXCEPT !.mobile_no = IF mobile_no = NoMobile THEN @ ELSE mobile_no,
                             !.is_active = IF is_active = "None" THEN @ ELSE to_bool(is_active)]]
            /\ last' = [NoLast EXCEPT !.op = "update_user_profile", !.status = 200, !.user = u]
       ELSE /\ UNCHANGED customuser
            /\ last' = [NoLast EXCEPT !.op = "update_user_profile", !.status = 400, !.user = u]
    /\ UNCHANGED <<location, buyer, seller, shop, objects, next_pk, pc, call, status>>

\* The nested CustomUserCreateSerializer of a profile update (partial): a
\* mobile_no key is validated without an instance, so its UniqueValidator also
\* counts the profile's own user row; a password key is a non-blank CharField.
user_patch_is_valid(mobile_no, password) ==
    /\ mobile_no = NoMobile \/ mobile_no_is_valid(mobile_no, NoPk)
    /\ password = NoPassword \/ strip(password) # ""

\* Mutant of user_patch_applied: the password key is assigned like any other.
user_patch_setattr(row, mobile_no, password) ==
    [row EXCEPT !.mobile_no = IF mobile_no = NoMobile THEN @ ELSE mobile_no,
                !.password = IF password = NoPassword THEN @ ELSE <<strip(password)>>]

\* The loop of BuyerSerializer.update / SellerSerializer.update over
\* user_data.items(): set_password for the password key, setattr for the rest.
user_patch_applied(row, mobile_no, password) ==
    [row EXCEPT !.mobile_no = IF mobile_no = NoMobile THEN @ ELSE mobile_no,
                !.password = IF password = NoPassword THEN @
                             ELSE make_password(strip(password))]

\* The patch of a profile update names a subset of the profile's fields; a
\* key the patch does not carry has the value "None".
BuyerPatch == [preferred_payment_method : {"gcash", "bank_card", "None"}]
SellerPatch == [is_free_plan : {"true", "false", "None"}]

\* The loop of BuyerSerializer.update over validated_data.items(): setattr
\* for every key the patch carries.
buyer_patch_applied(row, attrs) ==
    [row EXCEPT !.preferred_payment_method =
        IF attrs.preferred_payment_method = "None" THEN @
        ELSE attrs.preferred_payment_method]

\* Mutant of seller_patch_applied: the shop key is assigned like any other.
seller_patch_setattr_shop(row, attrs, shop_data) ==
    [f \in DOMAIN row \cup (IF shop_data = NoShopData THEN {} ELSE {"shop"}) |->
        IF f = "shop" THEN shop_data
        ELSE IF f = "is_free_plan" /\ attrs.is_free_plan # "None"
        THEN to_bool(attrs.is_free_plan)
        ELSE row[f]]

\* The loop of SellerSerializer.update over validated_data.items(): setattr
\* for every key the patch carries but shop, which is skipped.
seller_patch_applied(row, attrs, shop_data) ==
    [row EXCEPT !.is_free_plan =
        IF attrs.is_free_plan = "None" THEN @ ELSE to_bool(attrs.is_free_plan)]

\* BuyerViewSet.partial_update -> BuyerSerializer.update with a user patch
\* and a buyer patch: the user patch is applied and the user saved, then
\* setattr on the buyer and save.  db_error names the save() at which the
\* database raises, "None" for none; each save() commits on its own.
BuyerSerializer_update(b, mobile_no, password, attrs, db_error) ==
    LET users == [customuser EXCEPT ![buyer[b].user] =
                      user_patch_applied(@, mobile_no, password)]
        buyers == [buyer EXCEPT ![b] = buyer_patch_applied(@, attrs)]
    IN
    IF ~user_patch_is_valid(mobile_no, password)
    THEN [status |-> 400, customuser |-> customuser, buyer |-> buyer]
    ELSE IF db_error = "CustomUser"
    THEN [status |-> 500, customuser |-> customuser, buyer |-> buyer]
    ELSE IF db_error = "Buyer"
    THEN [status |-> 500, customuser |-> users, buyer |-> buyer]
    ELSE [status |-> 200, customuser |-> users, buyer |-> buyers]

buyer_update(b, mobile_no, password, attrs, db_error) ==
    /\ b \in DOMAIN buyer
    /\ LET r == BuyerSerializer_update(b, mobile_no, password, attrs, db_error) IN
       /\ customuser' = r.customuser
       /\ buyer' = r.buyer
       /\ last' = [NoLast EXCEPT !.op = "BuyerSerializer.update", !.status = r.status,
                                 !.user = buyer[b].user, !.profile = b]
    /\ UNCHANGED <<location, seller, shop, objects, next_pk, pc, call, status>>

\* SellerViewSet.partial_update -> SellerSerializer.update with a user patch,
\* a seller patch and, when the payload carries one, a shop patch (validated by
\* the nested ShopCreateSerializer): the user patch is applied and the user
\* saved, then setattr on the seller for every key but shop, and save.  No
\* statement of the handler reads or writes the Shop table.  db_error as in
\* BuyerSerializer_update.
SellerSerializer_update(s, mobile_no, password, attrs, shop_data, db_error) ==
    LET users == [customuser EXCEPT ![seller[s].user] =
                      user_patch_applied(@, mobile_no, password)]
        sellers == [seller EXCEPT ![s] = seller_patch_applied(@, attrs, shop_data)]
        Answer_(st, cu, sl) == [status |-> st, customuser |-> cu, seller |-> sl,
                                shop |-> shop]
    IN
    IF ~(/\ user_patch_is_valid(mobile_no, password)
         /\ shop_data = NoShopData \/ shop_data.shop_type \in SHOP_TYPE_CHOICES)
    THEN Answer_(400, customuser, seller)
    ELSE IF db_error = "CustomUser"
    THEN Answer_(500, customuser, seller)
    ELSE IF db_error = "Seller"
    THEN Answer_(500, users, seller)
    ELSE Answer_(200, users, sellers)

seller_update(s, mobile_no, password, attrs, shop_data, db_error) ==
    /\ s \in DOMAIN seller
    /\ LET r == SellerSerializer_update(s, mobile_no, password, attrs, shop_data, db_error) IN
       /\ customuser' = r.customuser
       /\ seller' = r.seller
       /\ shop' = r.shop
       /\ last' = [NoLast EXCEPT !.op = "SellerSerializer.update", !.status = r.status,
                                 !.user = seller[s].user, !.profile = s]
    /\ UNCHANGED <<location, buyer, objects, next_pk, pc, call, status>>

\* BuyerViewSet.update_settings by user u: the Buyer of request.user is
\* looked up, the buyer keys of request.data are assigned as sent and the
\* buyer saved; then, when request.data carries user_type, it is assigned as
\* sent and the user saved.  Neither value passes through a serializer.  Only
\* Buyer.DoesNotExist is caught; db_error as in BuyerSerializer_update.
update_settings_outcome(u, attrs, user_type, db_error) ==
    LET found == {k \in DOMAIN buyer : buyer[k].user = u}
        b == CHOOSE k \in found : TRUE
        buyers == [buyer EXCEPT ![b] = buyer_patch_applied(@, attrs)]
        users == [customuser EXCEPT ![u].user_type = user_type]
    IN
    IF found = {}
    THEN [status |-> 404, customuser |-> customuser, buyer |-> buyer, profile |-> NoPk]
    ELSE IF db_error = "Buyer"
    THEN [status |-> 500, customuser |-> customuser, buyer |-> buyer, profile |-> b]
    ELSE IF user_type = "None"
    THEN [status |-> 200, customuser |-> customuser, buyer |-> buyers, profile |-> b]
    ELSE IF db_error = "CustomUser"
    THEN [status |-> 500, customuser |-> customuser, buyer |-> buyers, profile |-> b]
    ELSE [status |-> 200, customuser |-> users, buyer |-> buyers, profile |-> b]

\* update_settings is IsAuthenticated: request.user is an active user.
update_settings(u, attrs, user_type, db_error) ==
    LET r == update_settings_outcome(u, attrs, user_type, db_error) IN
    /\ u \in DOMAIN customuser
    /\ customuser[u].is_active
    /\ customuser' = r.customuser
    /\ buyer' = r.buyer
    /\ last' = [NoLast EXCEPT !.op = "update_settings", !.status = r.status,
                             !.user = u, !.profile = r.profile]
    /\ UNCHANGED <<location, seller, shop, objects, next_pk, pc, call, status>>

\* Mutant of change_password_outcome: the old password is not verified.
change_password_outcome_unverified(t, u, old_password, new_password) ==
    IF old_password = "" \/ new_password = ""
    THEN [status |-> 400, customuser |-> t,
          error |-> "Old password and new password are required"]
    ELSE [status |-> 200,
          customuser |-> [t EXCEPT ![u].password = make_password(new_password)],
          error |-> "None"]

\* change_password on table t by user u: the status it answers with and the
\* table after it.  Both values are taken from request.data as they were sent.
change_password_outcome(t, u, old_password, new_password) ==
    IF old_password = "" \/ new_password = ""
    THEN [status |-> 400, customuser |-> t,
          error |-> "Old password and new password are required"]
    ELSE IF ~check_password(old_password, t[u].password)
    THEN [status |-> 400, customuser |-> t, error |-> "Current password is incorrect"]
    ELSE [status |-> 200,
          customuser |-> [t EXCEPT ![u].password = make_password(new_password)],
          error |-> "None"]

\* change_password is IsAuthenticated: request.user is an active user.
change_password(u, old_password, new_password) ==
    LET r == change_password_outcome(customuser, u, old_password, new_password) IN
    /\ u \in DOMAIN customuser
    /\ customuser[u].is_active
    /\ customuser' = r.customuser
    /\ last' = [NoLast EXCEPT !.op = "change_password", !.status = r.status, !.user = u,
                             !.error = r.error]
    /\ UNCHANGED <<location, buyer, seller, shop, objects, next_pk, pc, call, status>>

\* Mutant of unique_violation: mobile_no without unique=True.
unique_violation_unchecked(t, mobile_no) == FALSE

\* The unique index of CustomUser.mobile_no: an INSERT of a row whose
\* mobile_no is already in the table raises IntegrityError.
unique_violation(t, mobile_no) == \E k \in DOMAIN t : t[k].mobile_no = mobile_no

\* register_user, first statement: serializer.is_valid().  The UniqueValidator
\* reads the table as it is now.
register_user_is_valid(p, data) ==
    /\ pc[p] = "idle"
    /\ call' = [call EXCEPT ![p] =
           [model |-> "CustomUser", pk |-> NoPk, user |-> NoPk, instance |-> new_user(data)]]
    /\ IF user_is_valid(data)
       THEN /\ pc' = [pc EXCEPT ![p] = "save"]
            /\ UNCHANGED status
       ELSE /\ pc' = [pc EXCEPT ![p] = "done"]
            /\ status' = [status EXCEPT ![p] = 400]
    /\ UNCHANGED <<customuser, buyer, seller, shop, location, objects, next_pk, last>>

\* register_user, second statement: serializer.save() ->
\* CustomUserCreateSerializer.create -> user.save(): the INSERT.  An
\* IntegrityError is caught by the handler's except clause and answered 500.
register_user_save(p) ==
    /\ pc[p] = "save"
    /\ call[p].model = "CustomUser"
    /\ IF unique_violation(customuser, call[p].instance.mobile_no)
       THEN /\ status' = [status EXCEPT ![p] = 500]
            /\ UNCHANGED <<customuser, next_pk, call>>
       ELSE /\ customuser' = insert(customuser, next_pk["CustomUser"], call[p].instance)
            /\ next_pk' = [next_pk EXCEPT !["CustomUser"] = @ + 1]
            /\ call' = [call EXCEPT ![p].pk = next_pk["CustomUser"]]
            /\ status' = [status EXCEPT ![p] = 201]
    /\ pc' = [pc EXCEPT ![p] = "done"]
    /\ UNCHANGED <<buyer, seller, shop, location, objects, last>>

\* django.contrib.auth.authenticate(mobile_no=..., password=...) with the
\* default ModelBackend: the row whose mobile_no is the given one, when the
\* password verifies against its stored value and the row is active; NoPk
\* (None) otherwise.
authenticate(t, mobile_no, password) ==
    LET found == {k \in DOMAIN t : t[k].mobile_no = mobile_no} IN
    IF found = {} THEN NoPk
    ELSE LET user == CHOOSE k \in found : TRUE IN
         IF check_password(password, t[user].password) /\ t[user].is_active
         THEN user
         ELSE NoPk

\* Mutant of login_user_outcome: tokens are issued to whoever's password
\* verifies, the active flag is not looked at.
login_user_outcome_any_flag(t, mobile_no, password) ==
    LET found == {k \in DOMAIN t : t[k].mobile_no = mobile_no /\
                                   check_password(password, t[k].password)}
    IN  IF found = {}
        THEN [status |-> 401, user |-> NoPk, error |-> "Invalid credentials"]
        ELSE [status |-> 200, user |-> CHOOSE k \in found : TRUE, error |-> "None"]

\* login_user on table t: the status it answers with and the user it issues
\* tokens for.  The two values are taken from request.data as they were sent.
login_user_outcome(t, mobile_no, password) ==
    IF Len(mobile_no) = 0 \/ password = ""
    THEN [status |-> 400, user |-> NoPk,
          error |-> "Mobile number and password are required"]
    ELSE LET user == authenticate(t, mobile_no, password) IN
         IF user # NoPk
         THEN IF t[user].is_active
              THEN [status |-> 200, user |-> user, error |-> "None"]
              ELSE [status |-> 401, user |-> NoPk, error |-> "Account is deactivated"]
         ELSE [status |-> 401, user |-> NoPk, error |-> "Invalid credentials"]

\* login_user reads the table and writes nothing.
login_user(mobile_no, password) ==
    LET r == login_user_outcome(customuser, mobile_no, password) IN
    /\ last' = [NoLast EXCEPT !.op = "login_user", !.status = r.status, !.user = r.user,
                             !.error = r.error]
    /\ UNCHANGED <<customuser, buyer, seller, shop, location, objects, next_pk,
                   pc, call, status>>

InitAggregate ==
    /\ customuser = << >>
    /\ buyer = << >>
    /\ seller = << >>
    /\ shop = << >>
    /\ location = [l \in LevelSet |-> << >>]
    /\ objects = [m \in DefaultModels |-> << >>]
    /\ next_pk = [m \in Models |-> 1]
    /\ pc = [p \in Procs |-> "idle"]
    /\ call = [p \in Procs |-> NoCall]
    /\ status = [p \in Procs |-> 0]
    /\ last = NoLast

RegisterUser == \E data \in UserData({"buyer", "seller"}) : register_user(data)
BuyerCreate ==
    \E data \in UserData({"buyer"}), attrs \in BuyerData, db_error \in {"None", "CustomUser", "Buyer"} :
        buyer_create(data, attrs, db_error)
SellerCreate ==
    \E data \in UserData({"seller"}), attrs \in SellerData, shop_data \in ShopData \cup {NoShopData},
       db_error \in {"None", "CustomUser", "Seller", "Shop"} :
        seller_create(data, attrs, shop_data, db_error)
UpdateUserProfile ==
    \E u \in 1..MaxUsers, mobile_no \in Mobiles : update_user_profile(u, mobile_no, "None")
BuyerUpdate ==
    \E b \in 1..MaxUsers, mobile_no \in Mobiles, attrs \in BuyerData :
        buyer_update(b, mobile_no, NoPassword, attrs, "None")

NextAggregate ==
    \/ RegisterUser
    \/ BuyerCreate
    \/ SellerCreate
    \/ UpdateUserProfile
    \/ BuyerUpdate

\* Registration and profile requests, served one after another.
SpecAggregate == InitAggregate /\ [][NextAggregate]_vars

----------------------------------------------------------------------------
(* Specifications of the default selector *)

\* Two buyers have registered; no address or payment method yet.
InitSelector ==
    /\ customuser = [u \in Buyers |->
           [mobile_no |-> IF u = 1 THEN Str09171234567 ELSE Str09181234567,
            password |-> make_password("securepass123"),
            user_type |-> "buyer", is_active |-> TRUE, location |-> NoLocation]]
    /\ buyer = [b \in Buyers |-> [user |-> b, preferred_payment_method |-> "gcash"]]
    /\ seller = << >>
    /\ shop = << >>
    /\ location = [l \in LevelSet |-> << >>]
    /\ next_pk = [m \in Models |-> IF m \in {"CustomUser", "Buyer"} THEN 3 ELSE 1]
    /\ pc = [p \in Procs |-> "idle"]
    /\ call = [p \in Procs |-> NoCall]
    /\ status = [p \in Procs |-> 0]
    /\ last = NoLast

Init ==
    /\ InitSelector
    /\ objects = [m \in DefaultModels |-> << >>]

\* The single worker of the sequential specification.
Worker == CHOOSE p \in Procs : \A q \in Procs : p <= q

\* No set_default request is between two of its statements.
Quiescent == \A p \in Procs : pc[p] \in {"idle", "done"}

GetObject == set_default_get_object(Worker)
ClearOthers == set_default_update(Worker)
SaveTarget == set_default_save(Worker)
Return == set_default_return(Worker)
Create == \E m \in DefaultModels, b \in Buyers, d \in BOOLEAN :
              Quiescent /\ perform_create(m, b, d)
Update == \E m \in DefaultModels, pk \in 1..MaxRows, b \in Buyers, d \in BOOLEAN :
              Quiescent /\ perform_update(m, pk, b, d)
Destroy == \E m \in DefaultModels, pk \in 1..MaxRows : Quiescent /\ perform_destroy(m, pk)

Next ==
    \/ GetObject
    \/ ClearOthers
    \/ SaveTarget
    \/ Return
    \/ Create
    \/ Update
    \/ Destroy

\* Requests are served one at a time, each handler running to its response
\* before the next request starts.
Spec == Init /\ [][Next]_vars

\* The stored tables the race specification starts from: any rows that
\* perform_create can have inserted, MaxRows of them at most.
InitRace ==
    /\ InitSelector
    /\ \E n1, n2 \in 0..MaxRows :
          /\ n1 + n2 <= MaxRows
          /\ \E t1 \in [1..n1 -> [buyer : Buyers, is_default : BOOLEAN, location : {NoLocation}]],
                t2 \in [1..n2 -> [buyer : Buyers, is_default : BOOLEAN, location : {NoLocation}]] :
                objects = [m \in DefaultModels |->
                              IF m = "BuyerShippingAddress" THEN t1 ELSE t2]

RaceGetObject == \E p \in Procs : set_default_get_object(p)
RaceClearOthers == \E p \in Procs : set_default_update(p)
RaceSaveTarget == \E p \in Procs : set_default_save(p)

NextRace ==
    \/ RaceGetObject
    \/ RaceClearOthers
    \/ RaceSaveTarget

\* Two set_default requests, one per worker, interleaving statement by
\* statement; nothing else writes the tables.
SpecRace == InitRace /\ [][NextRace]_vars

----------------------------------------------------------------------------
(* Address hierarchy and deletion: Country / Region / Province / City /     *)
(* Barangay rows and the on_delete=CASCADE foreign keys that point at them  *)

\* Location rows ever inserted, the rows of the initial tree included.
MaxNodes == 9

StrNCR == <<"N", "C", "R">>
StrCAR == <<"C", "A", "R">>
Strcar == <<"c", "a", "r">>
\* A name query parameter that was not given.
NoName == << >>

Upper == <<"A", "C", "N", "R">>
Lower == <<"a", "c", "n", "r">>

\* str.lower() on names, character by character
str_lower(str) ==
    [i \in 1..Len(str) |->
        IF \E j \in DOMAIN Upper : Upper[j] = str[i]
        THEN Lower[CHOOSE j \in DOMAIN Upper : Upper[j] = str[i]]
        ELSE str[i]]

\* The name__icontains lookup: case-insensitive substring.
icontains(str, query) ==
    \E i \in 0..(Len(str) - Len(query)) :
        \A j \in 1..Len(query) : str_lower(str)[i + j] = str_lower(query)[j]

\* get_queryset() of the viewset of level i: every row, narrowed by the
\* optional ?name= parameter and, below Country, by the optional parent
\* parameter (?country=, ?region=, ?province=, ?city=).
location_get_queryset(i, name, parent) ==
    LET t == location[Levels[i]]
        byName == IF name # NoName THEN {k \in DOMAIN t : icontains(t[k].name, name)}
                  ELSE DOMAIN t
    IN  IF i > 1 /\ parent # NoPk THEN {k \in byName : t[k].parent = parent} ELSE byName

\* Mutant of children_outcome: the rows of the next level are not filtered by
\* their parent.
children_outcome_unfiltered(i, pk) ==
    IF pk \notin location_get_queryset(i, NoName, NoPk)
    THEN [status |-> 404, nodes |-> {}]
    ELSE [status |-> 200,
          nodes |-> {<<Levels[i + 1], k>> : k \in DOMAIN location[Levels[i + 1]]}]

\* The detail actions regions / provinces / cities / barangays of the viewset
\* of level i: get_object(), then the rows of the next level filtered by their
\* parent foreign key.  The answer lists nodes as <<level, pk>>.
children_outcome(i, pk) ==
    IF pk \notin location_get_queryset(i, NoName, NoPk)
    THEN [status |-> 404, nodes |-> {}]
    ELSE [status |-> 200,
          nodes |-> {<<Levels[i + 1], k>> :
                        k \in {j \in DOMAIN location[Levels[i + 1]] :
                                  location[Levels[i + 1]][j].parent = pk}}]

children(i, pk) ==
    LET r == children_outcome(i, pk) IN
    /\ last' = [NoLast EXCEPT !.op = "children", !.status = r.status]
    /\ UNCHANGED <<customuser, buyer, seller, shop, location, objects, next_pk,
                   pc, call, status>>

\* list of the viewset of level i: the rows of get_queryset(); nothing is written.
location_list(i, name, parent) ==
    /\ last' = [NoLast EXCEPT !.op = "list", !.status = 200]
    /\ UNCHANGED <<customuser, buyer, seller, shop, location, objects, next_pk,
                   pc, call, status>>

NodesInserted ==
    (next_pk["Country"] - 1) + (next_pk["Region"] - 1) + (next_pk["Province"] - 1)
        + (next_pk["City"] - 1) + (next_pk["Barangay"] - 1)

\* Mutant of parent_is_valid: the parent key is not looked up.
parent_is_valid_unchecked(i, parent) == TRUE

\* The PrimaryKeyRelatedField of the parent foreign key of level i (fields =
\* '__all__'): the primary key must be that of a row of the parent table.
parent_is_valid(i, parent) == i = 1 \/ parent \in DOMAIN location[Levels[i - 1]]

\* perform_create of the viewset of level i: the serializer (fields =
\* '__all__') validates the parent primary key against the parent table and
\* inserts the row.
location_perform_create(i, name, parent) ==
    LET l == Levels[i]
        valid == parent_is_valid(i, parent)
    IN
    /\ NodesInserted < MaxNodes
    /\ IF valid
       THEN /\ location' = [location EXCEPT ![l] =
                   insert(@, next_pk[l], [parent |-> IF i = 1 THEN NoPk ELSE parent,
                                          name |-> name])]
            /\ next_pk' = [next_pk EXCEPT ![l] = @ + 1]
            /\ last' = [NoLast EXCEPT !.op = "perform_create", !.status = 201]
       ELSE /\ UNCHANGED <<location, next_pk>>
            /\ last' = [NoLast EXCEPT !.op = "perform_create", !.status = 400]
    /\ UNCHANGED <<customuser, buyer, seller, shop, objects, pc, call, status>>

\* partial_update of the viewset of level i with a new parent key:
\* get_object() (404 when the row is not there), the serializer validates the
\* parent primary key against the parent table, perform_update saves the row.
location_perform_update(i, pk, parent) ==
    LET l == Levels[i]
        answer(st) == [NoLast EXCEPT !.op = "perform_update", !.status = st, !.model = l]
    IN
    /\ IF pk \notin location_get_queryset(i, NoName, NoPk)
       THEN /\ UNCHANGED location
            /\ last' = answer(404)
       ELSE IF ~parent_is_valid(i, parent)
       THEN /\ UNCHANGED location
            /\ last' = answer(400)
       ELSE /\ location' = [location EXCEPT ![l][pk].parent = IF i = 1 THEN NoPk ELSE parent]
            /\ last' = answer(200)
    /\ UNCHANGED <<customuser, buyer, seller, shop, objects, next_pk, pc, call, status>>

\* Table t without the rows whose keys are in gone.
remove(t, gone) == [k \in DOMAIN t \ gone |-> t[k]]

\* Mutant of refers: the location foreign keys of CustomUser, Shop and
\* BuyerShippingAddress with on_delete=DO_NOTHING, no row is collected
\* through them.
refers_do_nothing(refs, nodes) == FALSE

\* A row's location foreign keys point at one of the collected nodes.
refers(refs, nodes) == \E l \in LevelSet : refs[l] \in nodes[l]

\* Mutant of collect_nodes: Model.delete() with on_delete=DO_NOTHING between
\* the levels, only the row itself is collected.
collect_nodes_no_cascade(loc, i, pk, j) == IF j = i THEN {pk} ELSE {}

\* The rows of level j that Model.delete() of row pk of level i collects:
\* the row itself and, level by level, the rows whose parent foreign key
\* (on_delete=CASCADE) points at a collected row.
RECURSIVE collect_nodes(_, _, _, _)
collect_nodes(loc, i, pk, j) ==
    IF j < i THEN {}
    ELSE IF j = i THEN {pk}
    ELSE {k \in DOMAIN loc[Levels[j]] :
             loc[Levels[j]][k].parent \in collect_nodes(loc, i, pk, j - 1)}

\* Mutant of delete_collected: the OneToOneField of Buyer and Seller to
\* CustomUser does not cascade, the profiles of a deleted user stay.
delete_collected_keep_profiles(nodes, users, shops) ==
    LET U == users \cup {u \in DOMAIN customuser : refers(customuser[u].location, nodes)}
        H == shops \cup {h \in DOMAIN shop : refers(shop[h].location, nodes)}
        A == {a \in DOMAIN objects["BuyerShippingAddress"] :
                 refers(objects["BuyerShippingAddress"][a].location, nodes)}
    IN  [location |-> [l \in LevelSet |-> remove(location[l], nodes[l])],
         customuser |-> remove(customuser, U),
         buyer |-> buyer,
         seller |-> seller,
         shop |-> remove(shop, H),
         objects |-> [objects EXCEPT !["BuyerShippingAddress"] = remove(@, A)]]

\* Model.delete(): the collector follows every on_delete=CASCADE foreign key
\* from the rows it starts with (location nodes, users, shops) and deletes all
\* collected rows in one transaction.  CustomUser, Shop and
\* BuyerShippingAddress point at the five location tables; Buyer and Seller
\* at CustomUser; Shop at Seller; BuyerShippingAddress and BuyerPaymentMethod
\* at Buyer.  The tables after the delete:
delete_collected(nodes, users, shops) ==
    LET U == users \cup {u \in DOMAIN customuser : refers(customuser[u].location, nodes)}
        B == {b \in DOMAIN buyer : buyer[b].user \in U}
        S == {x \in DOMAIN seller : seller[x].user \in U}
        H == shops \cup {h \in DOMAIN shop :
                            shop[h].seller \in S \/ refers(shop[h].location, nodes)}
        A == {a \in DOMAIN objects["BuyerShippingAddress"] :
                 \/ objects["BuyerShippingAddress"][a].buyer \in B
                 \/ refers(objects["BuyerShippingAddress"][a].location, nodes)}
        P == {a \in DOMAIN objects["BuyerPaymentMethod"] :
                 objects["BuyerPaymentMethod"][a].buyer \in B}
    IN  [location |-> [l \in LevelSet |-> remove(location[l], nodes[l])],
         customuser |-> remove(customuser, U),
         buyer |-> remove(buyer, B),
         seller |-> remove(seller, S),
         shop |-> remove(shop, H),
         objects |-> [m \in DefaultModels |->
                         remove(objects[m], IF m = "BuyerShippingAddress" THEN A ELSE P)]]

NoNodes == [l \in LevelSet |-> {}]

\* instance.delete() of row pk of level i
location_delete_outcome(i, pk) ==
    delete_collected([l \in LevelSet |->
                         UNION {collect_nodes(location, i, pk, j) :
                                   j \in {x \in DOMAIN Levels : Levels[x] = l}}],
                     {}, {})

\* CustomUser.delete() of row u
customuser_delete_outcome(u) == delete_collected(NoNodes, {u}, {})

\* Shop.delete() of row h
shop_delete_outcome(h) == delete_collected(NoNodes, {}, {h})

\* Buyer.delete() of row b: the collector starts from the Buyer row and
\* follows the foreign keys that point at it (BuyerShippingAddress.buyer,
\* BuyerPaymentMethod.buyer).  Buyer.user points from the Buyer to the
\* CustomUser, so the CustomUser row is not collected.
buyer_delete_outcome(b) ==
    [location |-> location,
     customuser |-> customuser,
     buyer |-> remove(buyer, {b}),
     seller |-> seller,
     shop |-> shop,
     objects |-> [m \in DefaultModels |->
                     remove(objects[m], {a \in DOMAIN objects[m] : objects[m][a].buyer = b})]]

\* The tables become those of outcome r.
stored(r) ==
    /\ location' = r.location
    /\ customuser' = r.customuser
    /\ buyer' = r.buyer
    /\ seller' = r.seller
    /\ shop' = r.shop
    /\ objects' = r.objects

\* destroy of the viewset of level i: get_object() (404 when the row is not
\* there), then perform_destroy: instance.delete() and the log line.  The log
\* line of CountryViewSet.perform_destroy reads the undefined name country:
\* the NameError is raised after the delete has committed and the request
\* answers 500.
location_perform_destroy(i, pk) ==
    IF pk \notin location_get_queryset(i, NoName, NoPk)
    THEN /\ last' = [NoLast EXCEPT !.op = "perform_destroy", !.status = 404,
                                  !.model = Levels[i]]
         /\ UNCHANGED <<customuser, buyer, seller, shop, location, objects, next_pk,
                        pc, call, status>>
    ELSE /\ stored(location_delete_outcome(i, pk))
         /\ last' = [NoLast EXCEPT !.op = "perform_destroy",
                                  !.status = IF i = 1 THEN 500 ELSE 204,
                                  !.model = Levels[i]]
         /\ UNCHANGED <<next_pk, pc, call, status>>

\* BuyerViewSet.destroy: get_object() (404 when the row is not there), then
\* perform_destroy: instance.delete() and the log line.
buyer_perform_destroy(b) ==
    IF b \notin DOMAIN buyer
    THEN /\ last' = [NoLast EXCEPT !.op = "BuyerViewSet.perform_destroy", !.status = 404]
         /\ UNCHANGED <<customuser, buyer, seller, shop, location, objects, next_pk,
                        pc, call, status>>
    ELSE /\ stored(buyer_delete_outcome(b))
         /\ last' = [NoLast EXCEPT !.op = "BuyerViewSet.perform_destroy", !.status = 204,
                                  !.user = buyer[b].user, !.profile = b]
         /\ UNCHANGED <<next_pk, pc, call, status>>

\* CustomUserViewSet.destroy: get_object(), instance.delete()
customuser_destroy(u) ==
    /\ u \in DOMAIN customuser
    /\ stored(customuser_delete_outcome(u))
    /\ last' = [NoLast EXCEPT !.op = "destroy", !.status = 204, !.model = "CustomUser"]
    /\ UNCHANGED <<next_pk, pc, call, status>>

\* ShopViewSet.destroy: get_object(), instance.delete()
shop_destroy(h) ==
    /\ h \in DOMAIN shop
    /\ stored(shop_delete_outcome(h))
    /\ last' = [NoLast EXCEPT !.op = "destroy", !.status = 204, !.model = "Shop"]
    /\ UNCHANGED <<next_pk, pc, call, status>>

\* Location references of the rows of the initial store: the chain down to
\* Barangay 1, and Country 2 alone.
ChainRefs == [l \in LevelSet |-> 1]
CountryRefs == [l \in LevelSet |-> IF l = "Country" THEN 2 ELSE NoPk]

\* Two countries with regions, provinces, cities and barangays below them, a
\* buyer with a shipping address in Barangay 1 and a payment method, a seller
\* with a shop in Country 2.  The buyer's user has no location or the chain
\* down to Barangay 1.
InitLocation ==
    /\ location =
          [l \in LevelSet |->
              IF l = "Country"
              THEN <<[parent |-> NoPk, name |-> StrNCR], [parent |-> NoPk, name |-> StrCAR]>>
              ELSE IF l = "Region"
              THEN <<[parent |-> 1, name |-> StrNCR], [parent |-> 2, name |-> StrCAR]>>
              ELSE IF l = "Province"
              THEN <<[parent |-> 1, name |-> StrNCR], [parent |-> 2, name |-> StrCAR]>>
              ELSE IF l = "City"
              THEN <<[parent |-> 1, name |-> StrNCR]>>
              ELSE <<[parent |-> 1, name |-> StrNCR]>>]
    /\ \E ru \in {NoLocation, ChainRefs}, rh \in {CountryRefs}, ra \in {ChainRefs} :
          /\ customuser =
                <<[new_user([mobile_no |-> Str09171234567, password |-> "securepass123",
                             user_type |-> "buyer"]) EXCEPT !.location = ru],
                  new_user([mobile_no |-> Str09181234567, password |-> "securepass123",
                            user_type |-> "seller"])>>
          /\ shop = <<[seller |-> 1, shop_type |-> "water", location |-> rh]>>
          /\ objects = [m \in DefaultModels |->
                <<[buyer |-> 1, is_default |-> TRUE,
                   location |-> IF m = "BuyerShippingAddress" THEN ra ELSE NoLocation]>>]
    /\ buyer = <<[user |-> 1, preferred_payment_method |-> "gcash"]>>
    /\ seller = <<[user |-> 2, is_free_plan |-> TRUE]>>
    /\ next_pk = [m \in Models |->
          IF m \in LevelSet THEN Len(location[m]) + 1
          ELSE IF m = "CustomUser" THEN 3
          ELSE 2]
    /\ pc = [p \in Procs |-> "idle"]
    /\ call = [p \in Procs |-> NoCall]
    /\ status = [p \in Procs |-> 0]
    /\ last = NoLast

LocationChildren == \E i \in 1..(Len(Levels) - 1), pk \in 1..2 : children(i, pk)
LocationList ==
    \E i \in DOMAIN Levels, name \in {NoName, Strcar}, parent \in {NoPk, 1} :
        location_list(i, name, parent)
LocationCreate ==
    \E i \in DOMAIN Levels, name \in {StrNCR}, parent \in {1, 3} :
        location_perform_create(i, name, parent)
LocationDestroy == \E i \in DOMAIN Levels, pk \in 1..3 : location_perform_destroy(i, pk)
CustomUserDestroy == \E u \in DOMAIN customuser : customuser_destroy(u)
ShopDestroy == \E h \in DOMAIN shop : shop_destroy(h)

NextLocation ==
    \/ LocationChildren
    \/ LocationList
    \/ LocationCreate
    \/ LocationDestroy
    \/ CustomUserDestroy
    \/ ShopDestroy

\* Hierarchy queries and deletions, served one after another.
SpecLocation == InitLocation /\ [][NextLocation]_vars

----------------------------------------------------------------------------
(* Specification of writes to the address hierarchy *)

\* Two countries, a region in each and one province; rows created and
\* deleted earlier have used up some primary keys.
InitTree ==
    /\ location = [l \in LevelSet |->
           CASE l = "Country" -> <<[parent |-> NoPk, name |-> StrNCR],
                                   [parent |-> NoPk, name |-> StrCAR]>>
             [] l = "Region" -> <<[parent |-> 1, name |-> StrNCR],
                                  [parent |-> 2, name |-> StrCAR]>>
             [] l = "Province" -> <<[parent |-> 1, name |-> StrNCR]>>
             [] OTHER -> << >>]
    /\ customuser = << >>
    /\ buyer = << >>
    /\ seller = << >>
    /\ shop = << >>
    /\ objects = [m \in DefaultModels |-> << >>]
    /\ next_pk = [m \in Models |->
           CASE m \in {"Country", "Region"} -> 3
             [] m \in {"Province", "City", "Barangay"} -> 2
             [] OTHER -> 1]
    /\ pc = [p \in Procs |-> "idle"]
    /\ call = [p \in Procs |-> NoCall]
    /\ status = [p \in Procs |-> 0]
    /\ last = NoLast

TreeLevels == 1..3
TreeCreate ==
    \E i \in TreeLevels, parent \in {1, 3} : location_perform_create(i, StrNCR, parent)
TreeUpdate ==
    \E i \in TreeLevels, pk \in 1..2, parent \in 1..3 : location_perform_update(i, pk, parent)
TreeDestroy == \E i \in TreeLevels, pk \in 1..3 : location_perform_destroy(i, pk)

NextTree ==
    \/ TreeCreate
    \/ TreeUpdate
    \/ TreeDestroy

\* Writes to the hierarchy, served one after another.
SpecTree == InitTree /\ [][NextTree]_vars

----------------------------------------------------------------------------
(* Specification of credentials: login, password change, profile updates *)

\* Request values of the credential specification.
AuthMobiles == {Str09171234567, Str09181234567}
AuthPasswords == {"securepass123", "newpass456", ""}
AuthUserData(user_types) ==
    [mobile_no : AuthMobiles, password : {"securepass123", " securepass123", "123"},
     user_type : user_types]

\* One buyer has registered.
InitAuth ==
    /\ customuser = <<new_user([mobile_no |-> Str09171234567,
                                password |-> "securepass123", user_type |-> "buyer"])>>
    /\ buyer = <<[user |-> 1, preferred_payment_method |-> "gcash"]>>
    /\ seller = << >>
    /\ shop = << >>
    /\ location = [l \in LevelSet |-> << >>]
    /\ objects = [m \in DefaultModels |-> << >>]
    /\ next_pk = [m \in Models |-> IF m \in {"CustomUser", "Buyer"} THEN 2 ELSE 1]
    /\ pc = [p \in Procs |-> "idle"]
    /\ call = [p \in Procs |-> NoCall]
    /\ status = [p \in Procs |-> 0]
    /\ last = NoLast

AuthRegisterUser == \E data \in AuthUserData({"buyer", "seller"}) : register_user(data)
AuthBuyerCreate ==
    \E data \in AuthUserData({"buyer", "seller"}), attrs \in BuyerData :
        buyer_create(data, attrs, "None")
AuthSellerCreate ==
    \E data \in AuthUserData({"seller"}), attrs \in SellerData,
       shop_data \in {NoShopData, [shop_type |-> "water"]} :
        seller_create(data, attrs, shop_data, "None")
Login == \E mobile_no \in AuthMobiles, password \in AuthPasswords : login_user(mobile_no, password)
ChangePassword ==
    \E u \in DOMAIN customuser, old_password \in AuthPasswords, new_password \in AuthPasswords :
        change_password(u, old_password, new_password)
AuthUpdateUserProfile ==
    \E u \in DOMAIN customuser, is_active \in {"true", "false"} :
        update_user_profile(u, NoMobile, is_active)
AuthBuyerUpdate ==
    \E b \in DOMAIN buyer, password \in AuthPasswords \cup {NoPassword}, attrs \in BuyerPatch :
        buyer_update(b, NoMobile, password, attrs, "None")
AuthSellerUpdate ==
    \E s \in DOMAIN seller, password \in AuthPasswords \cup {NoPassword}, attrs \in SellerPatch :
        seller_update(s, NoMobile, password, attrs, NoShopData, "None")

NextAuth ==
    \/ AuthRegisterUser
    \/ AuthBuyerCreate
    \/ AuthSellerCreate
    \/ Login
    \/ ChangePassword
    \/ AuthUpdateUserProfile
    \/ AuthBuyerUpdate
    \/ AuthSellerUpdate

\* Credential requests, served one after another.
SpecAuth == InitAuth /\ [][NextAuth]_vars

----------------------------------------------------------------------------
(* Specification of profile updates *)

\* One buyer and one seller with a shop have registered.
InitProfile ==
    /\ customuser = <<new_user([mobile_no |-> Str09171234567,
                                password |-> "securepass123", user_type |-> "buyer"]),
                      new_user([mobile_no |-> Str09181234567,
                                password |-> "securepass123", user_type |-> "seller"])>>
    /\ buyer = <<[user |-> 1, preferred_payment_method |-> "gcash"]>>
    /\ seller = <<[user |-> 2, is_free_plan |-> TRUE]>>
    /\ shop = <<[seller |-> 1, shop_type |-> "water", location |-> NoLocation]>>
    /\ location = [l \in LevelSet |-> << >>]
    /\ objects = [m \in DefaultModels |-> << >>]
    /\ next_pk = [m \in Models |-> IF m = "CustomUser" THEN 3
                                   ELSE IF m \in {"Buyer", "Seller", "Shop"} THEN 2 ELSE 1]
    /\ pc = [p \in Procs |-> "idle"]
    /\ call = [p \in Procs |-> NoCall]
    /\ status = [p \in Procs |-> 0]
    /\ last = NoLast

ProfileMobiles == {NoMobile, Str09181234567, Str9171234567}
ProfilePasswords == {NoPassword, "newpass456"}
ProfileShopData == {NoShopData, [shop_type |-> "rice"]}
ProfileUserTypes == {"None", "seller", "hacker"}

ProfileBuyerUpdate ==
    \E b \in DOMAIN buyer, mobile_no \in ProfileMobiles, password \in ProfilePasswords,
       attrs \in BuyerPatch, db_error \in {"None", "CustomUser", "Buyer"} :
        buyer_update(b, mobile_no, password, attrs, db_error)
ProfileSellerUpdate ==
    \E s \in DOMAIN seller, mobile_no \in ProfileMobiles, password \in ProfilePasswords,
       attrs \in SellerPatch, shop_data \in ProfileShopData,
       db_error \in {"None", "CustomUser", "Seller"} :
        seller_update(s, mobile_no, password, attrs, shop_data, db_error)
ProfileUpdateSettings ==
    \E u \in DOMAIN customuser, attrs \in BuyerPatch, user_type \in ProfileUserTypes,
       db_error \in {"None", "Buyer", "CustomUser"} :
        update_settings(u, attrs, user_type, db_error)
ProfileBuyerDestroy == \E b \in 1..2 : buyer_perform_destroy(b)

NextProfile ==
    \/ ProfileBuyerUpdate
    \/ ProfileSellerUpdate
    \/ ProfileUpdateSettings
    \/ ProfileBuyerDestroy

\* Profile update requests, served one after another.
SpecProfile == InitProfile /\ [][NextProfile]_vars

----------------------------------------------------------------------------
(* Specification of concurrent registrations *)

\* The store holds no identity or one registered identity.
InitRegister ==
    \/ InitAggregate
    \/ /\ customuser = <<new_user([mobile_no |-> Str09171234567,
                                   password |-> "securepass123", user_type |-> "buyer"])>>
       /\ buyer = << >>
       /\ seller = << >>
       /\ shop = << >>
       /\ location = [l \in LevelSet |-> << >>]
       /\ objects = [m \in DefaultModels |-> << >>]
       /\ next_pk = [m \in Models |-> IF m = "CustomUser" THEN 2 ELSE 1]
       /\ pc = [p \in Procs |-> "idle"]
       /\ call = [p \in Procs |-> NoCall]
       /\ status = [p \in Procs |-> 0]
       /\ last = NoLast

RegisterIsValid ==
    \E p \in Procs, data \in UserData({"buyer", "seller"}) : register_user_is_valid(p, data)
RegisterSave == \E p \in Procs : register_user_save(p)

NextRegister ==
    \/ RegisterIsValid
    \/ RegisterSave

\* Two register_user requests, one per worker, interleaving statement by
\* statement.
SpecRegister == InitRegister /\ [][NextRegister]_vars

----------------------------------------------------------------------------
(* Properties of the default selector *)

\* The caller of request c is not the user of the Buyer that owns the row it loaded.
NotOwner(c) == c.instance.buyer # NoPk /\ buyer[c.instance.buyer].user # c.user

\* C1: in every reachable state each Buyer has at most one BuyerShippingAddress
\* with is_default = True and at most one BuyerPaymentMethod with is_default = True.
C1_AtMostOneDefault ==
    \A m \in DefaultModels, b \in Buyers : Cardinality(Defaults(objects, m, b)) <= 1

\* C2: with requests served one at a time, the statement that completes a
\* set_default(target) leaves exactly the target with is_default = True among
\* the rows of that model owned by the target's buyer.
C2_SetDefaultSelectsTarget ==
    [][\A p \in Procs :
          (pc[p] = "save" /\ pc'[p] = "done" /\ status'[p] = 200)
              => Defaults(objects', call[p].model, call[p].instance.buyer) = {call[p].pk}]_vars

\* C2 witness: a set_default has answered 200 for a buyer that owns three rows
\* of the model, and only its target is the default.
C2_Witness ==
    \E p \in Procs :
        /\ pc[p] = "done" /\ status[p] = 200
        /\ Cardinality({k \in DOMAIN objects[call[p].model] :
               objects[call[p].model][k].buyer = call[p].instance.buyer}) >= 3
        /\ Defaults(objects, call[p].model, call[p].instance.buyer) = {call[p].pk}

\* C3: the clear-others write of a set_default on a buyer that has exactly one
\* default leaves no stored state with zero or two defaults for a reader to see.
C3_ReaderSeesOneDefault ==
    [][\A p \in Procs :
          (/\ pc[p] = "update" /\ pc'[p] = "save"
           /\ Cardinality(Defaults(objects, call[p].model, call[p].instance.buyer)) = 1)
              => Cardinality(Defaults(objects', call[p].model, call[p].instance.buyer)) = 1]_vars

\* C4: once two set_default requests on different rows of the same model and
\* buyer have both answered, exactly one row of that buyer is the default.
C4_OneDefaultAfterRace ==
    \A p, q \in Procs :
        (/\ p # q
         /\ pc[p] = "done" /\ status[p] = 200
         /\ pc[q] = "done" /\ status[q] = 200
         /\ call[p].model = call[q].model
         /\ call[p].instance.buyer = call[q].instance.buyer
         /\ call[p].pk # call[q].pk)
            => Cardinality(Defaults(objects, call[p].model, call[p].instance.buyer)) = 1

\* C5: a set_default whose caller does not own the target answers 404 straight
\* from the ownership check and writes no row.
C5_OwnershipCheckedFirst ==
    [][\A p \in Procs :
          (call'[p] # call[p] /\ NotOwner(call'[p]))
              => (pc'[p] = "done" /\ status'[p] = 404 /\ objects' = objects)]_vars

----------------------------------------------------------------------------
(* Properties of the identity and role aggregates *)

\* The mobile number format of the specification: all digits, leading zero,
\* exactly 11 characters.
WellFormedMobile(mobile_no) ==
    isdigit(mobile_no) /\ startswith0(mobile_no) /\ Len(mobile_no) = MobileLength

\* Identity attributes a registration must accept.
ValidIdentity(data) ==
    /\ WellFormedMobile(data.mobile_no)
    /\ \A k \in DOMAIN customuser : customuser[k].mobile_no # data.mobile_no
    /\ data.password # ""
    /\ data.user_type \in USER_TYPE_CHOICES

\* Table after is table before plus exactly the one new row under key k.
OneNewRow(before, after, k) ==
    /\ k \notin DOMAIN before
    /\ DOMAIN after = DOMAIN before \cup {k}
    /\ \A j \in DOMAIN before : after[j] = before[j]

\* C6: a createBuyerProfile that fails leaves neither a new CustomUser nor a
\* new Buyer in the store.
C6_BuyerCreateAllOrNothing ==
    [][(last' # last /\ last'.op = "BuyerSerializer.create" /\ last'.status # 201)
          => (customuser' = customuser /\ buyer' = buyer)]_vars

\* C7: a createSellerProfile that fails leaves no new CustomUser, Seller or
\* Shop in the store.
C7_SellerCreateAllOrNothing ==
    [][(last' # last /\ last'.op = "SellerSerializer.create" /\ last'.status # 201)
          => (customuser' = customuser /\ seller' = seller /\ shop' = shop)]_vars

\* C8: in every reachable state, createSellerProfile with valid identity,
\* seller and shop attributes answers 201 and adds exactly one CustomUser, one
\* Seller whose user is that CustomUser and one Shop whose seller is that Seller.
C8_SellerWithShopCreated ==
    \A data \in UserData({"seller"}), attrs \in SellerData, shop_data \in ShopData :
        (ValidIdentity(data) /\ shop_data.shop_type \in SHOP_TYPE_CHOICES) =>
            LET r == SellerSerializer_create(data, attrs, shop_data, "None") IN
            /\ r.status = 201
            /\ OneNewRow(customuser, r.customuser, r.user_pk)
            /\ r.customuser[r.user_pk].mobile_no = data.mobile_no
            /\ OneNewRow(seller, r.seller, r.profile_pk)
            /\ r.seller[r.profile_pk].user = r.user_pk
            /\ OneNewRow(shop, r.shop, r.shop_pk)
            /\ r.shop[r.shop_pk].seller = r.profile_pk
            /\ r.shop[r.shop_pk].shop_type = shop_data.shop_type

\* C8 witness: a createSellerProfile with a shop has just answered 201 and its
\* three rows are stored and linked.
C8_Witness ==
    /\ last.op = "SellerSerializer.create" /\ last.status = 201
    /\ last.shop \in DOMAIN shop
    /\ shop[last.shop].seller = last.profile
    /\ last.profile \in DOMAIN seller
    /\ seller[last.profile].user = last.user
    /\ last.user \in DOMAIN customuser

\* C9: in every reachable state, createSellerProfile with valid identity and
\* seller attributes and no shop attributes answers 201, adds exactly one
\* CustomUser and one Seller whose user is that CustomUser, and adds no Shop.
C9_SellerWithoutShopCreated ==
    \A data \in UserData({"seller"}), attrs \in SellerData :
        ValidIdentity(data) =>
            LET r == SellerSerializer_create(data, attrs, NoShopData, "None") IN
            /\ r.status = 201
            /\ OneNewRow(customuser, r.customuser, r.user_pk)
            /\ r.customuser[r.user_pk].mobile_no = data.mobile_no
            /\ OneNewRow(seller, r.seller, r.profile_pk)
            /\ r.seller[r.profile_pk].user = r.user_pk
            /\ r.shop = shop
            /\ r.shop_pk = NoPk

\* C9 witness: a createSellerProfile without a shop has just answered 201;
\* its CustomUser and Seller are stored and no Shop refers to the Seller.
C9_Witness ==
    /\ last.op = "SellerSerializer.create" /\ last.status = 201
    /\ last.shop = NoPk
    /\ last.profile \in DOMAIN seller
    /\ seller[last.profile].user = last.user
    /\ last.user \in DOMAIN customuser
    /\ \A h \in DOMAIN shop : shop[h].seller # last.profile

\* C10: in every reachable state every stored CustomUser has a mobile number
\* of exactly 11 digits with a leading zero.
C10_StoredMobilesWellFormed ==
    \A u \in DOMAIN customuser : WellFormedMobile(customuser[u].mobile_no)

\* No two CustomUser rows of table t carry the same mobile_no.
UniqueMobiles(t) ==
    \A j, k \in DOMAIN t : t[j].mobile_no = t[k].mobile_no => j = k

\* C11: no two CustomUser rows ever carry the same mobile_no, also when two
\* registrations of one number interleave, and a registration whose number is
\* already stored when it is validated or inserted does not answer 201 and
\* leaves every CustomUser, Buyer and Seller row as it was.
C11_MobileUnique ==
    [][/\ UniqueMobiles(customuser')
       /\ \A p \in Procs :
             (/\ pc[p] \in {"idle", "save"} /\ pc'[p] = "done"
              /\ unique_violation(customuser, call'[p].instance.mobile_no))
                 => (/\ status'[p] \in {400, 500}
                     /\ customuser' = customuser
                     /\ buyer' = buyer
                     /\ seller' = seller)]_vars

\* C11 witness: two registrations of one number have interleaved; one answered
\* 201, the other was refused by the unique index, and one row holds the number.
C11_Witness ==
    \E p, q \in Procs :
        /\ pc[p] = "done" /\ status[p] = 201
        /\ pc[q] = "done" /\ status[q] = 500
        /\ call[p].instance.mobile_no = call[q].instance.mobile_no
        /\ Cardinality({k \in DOMAIN customuser :
               customuser[k].mobile_no = call[p].instance.mobile_no}) = 1

\* C12: in every reachable state, for every well-formed unused mobile number
\* and non-empty password, register_user answers 201 and a login_user with the
\* same number and password right after it answers 200, while a login_user
\* with the same number and any other non-empty password answers 401.
C12_RegisterThenLogin ==
    \A data \in UserData({"buyer", "seller"}) :
        ValidIdentity(data) =>
            LET r == register_user_outcome(data) IN
            /\ r.status = 201
            /\ login_user_outcome(r.customuser, data.mobile_no, data.password).status = 200
            /\ \A wrong \in Passwords \ {data.password, ""} :
                  login_user_outcome(r.customuser, data.mobile_no, wrong).status = 401

\* The password column holds an encoded hash, not a raw password.
StoredAsHash(encoded) == Len(encoded) = 2 /\ encoded[1] = "pbkdf2_sha256"

\* C13: in every reachable state login_user answers 200 (issues tokens) for no
\* CustomUser whose is_active is False, whatever password is supplied, the
\* correct one included.
C13_InactiveNeverAuthenticates ==
    \A u \in DOMAIN customuser, password \in AuthPasswords \cup Passwords :
        ~customuser[u].is_active =>
            LET r == login_user_outcome(customuser, customuser[u].mobile_no, password) IN
            r.status # 200 /\ r.user = NoPk

\* C13 witness: a login has just been refused while a deactivated user whose
\* stored password verifies against "securepass123" is in the table.
C13_Witness ==
    /\ last.op = "login_user" /\ last.status = 401
    /\ \E u \in DOMAIN customuser :
          /\ ~customuser[u].is_active
          /\ check_password("securepass123", customuser[u].password)
          /\ login_user_outcome(customuser, customuser[u].mobile_no,
                                "securepass123").status = 401

\* C14: in every reachable state a change_password whose old password does
\* not verify against the stored hash answers 400 and leaves the table as it
\* was, so every password authenticates exactly as before.
C14_WrongOldPasswordRefused ==
    \A u \in DOMAIN customuser, old_password \in AuthPasswords \ {""},
       new_password \in AuthPasswords \ {""} :
        ~check_password(old_password, customuser[u].password) =>
            LET r == change_password_outcome(customuser, u, old_password, new_password) IN
            /\ r.status = 400
            /\ r.customuser = customuser
            /\ \A password \in AuthPasswords :
                  login_user_outcome(r.customuser, customuser[u].mobile_no, password)
                      = login_user_outcome(customuser, customuser[u].mobile_no, password)

\* C14 witness: a change_password has just been refused for its old password
\* and the user's earlier password still logs in.
C14_Witness ==
    /\ last.op = "change_password" /\ last.status = 400
    /\ last.error = "Current password is incorrect"
    /\ \E password \in AuthPasswords :
          login_user_outcome(customuser, customuser[last.user].mobile_no,
                             password).status = 200

\* C15: in every reachable state, when change_password(old, new) with new
\* different from old answers 200 for an authenticated user, a login with old
\* right after it answers 401 and a login with new answers 200.
C15_PasswordChangeRoundTrip ==
    \A u \in DOMAIN customuser, old_password \in AuthPasswords \ {""},
       new_password \in AuthPasswords \ {""} :
        (customuser[u].is_active /\ old_password # new_password) =>
            LET r == change_password_outcome(customuser, u, old_password, new_password) IN
            r.status = 200 =>
                /\ login_user_outcome(r.customuser, customuser[u].mobile_no,
                                      old_password).status = 401
                /\ login_user_outcome(r.customuser, customuser[u].mobile_no,
                                      new_password).status = 200

\* C15 witness: a change_password to "newpass456" has just answered 200; the
\* new password logs in and "securepass123" no longer does.
C15_Witness ==
    /\ last.op = "change_password" /\ last.status = 200
    /\ customuser[last.user].password = make_password("newpass456")
    /\ login_user_outcome(customuser, customuser[last.user].mobile_no,
                          "newpass456").status = 200
    /\ login_user_outcome(customuser, customuser[last.user].mobile_no,
                          "securepass123").status = 401

\* C16: in every reachable state the password column of every CustomUser holds
\* an encoded hash and never a raw password.
C16_PasswordsStoredHashed ==
    \A u \in DOMAIN customuser : StoredAsHash(customuser[u].password)

\* C16 witness: a profile update whose user patch carried the password
\* "newpass456" has just answered 200 and the user's column holds its hash.
C16_Witness ==
    /\ last.op \in {"BuyerSerializer.update", "SellerSerializer.update"}
    /\ last.status = 200
    /\ customuser[last.user].password = make_password("newpass456")

----------------------------------------------------------------------------
(* Properties of the address hierarchy and of deletion *)

\* The ancestor at level i of row k of level j (i <= j), found by following
\* the parent foreign keys upwards.
RECURSIVE AncestorAt(_, _, _, _)
AncestorAt(loc, j, k, i) ==
    IF j = i THEN k ELSE AncestorAt(loc, j - 1, loc[Levels[j]][k].parent, i)

\* Every row below Country has its parent row.
ParentsExist(loc) ==
    \A j \in DOMAIN Levels : \A k \in DOMAIN loc[Levels[j]] :
        j > 1 => loc[Levels[j]][k].parent \in DOMAIN loc[Levels[j - 1]]

\* C17: in every reachable state the children query of every stored node of
\* the four upper levels answers 200 with exactly the rows of the next level
\* whose parent is that node (no row of another parent, no row of a deeper
\* level), and the list filtered by the parent parameter gives the same rows,
\* narrowed to the matching names when a name parameter is given too.
C17_ChildrenAreDirect ==
    \A i \in 1..(Len(Levels) - 1) : \A pk \in DOMAIN location[Levels[i]] :
        LET r == children_outcome(i, pk) IN
        /\ r.status = 200
        /\ \A j \in DOMAIN Levels : \A k \in DOMAIN location[Levels[j]] :
              (<<Levels[j], k>> \in r.nodes)
                  <=> (j = i + 1 /\ location[Levels[j]][k].parent = pk)
        /\ r.nodes \subseteq {<<Levels[j], k>> : j \in DOMAIN Levels, k \in 1..MaxNodes}
        /\ location_get_queryset(i + 1, NoName, pk) = {n[2] : n \in r.nodes}
        /\ location_get_queryset(i + 1, Strcar, pk)
              = {n[2] : n \in {x \in r.nodes :
                                 icontains(location[x[1]][x[2]].name, Strcar)}}

\* C17 witness: a children query has just answered 200 while Country 1 has a
\* region, another region belongs to another country and a province lies
\* below Country 1.
C17_Witness ==
    /\ last.op = "children" /\ last.status = 200
    /\ 1 \in DOMAIN location["Country"]
    /\ children_outcome(1, 1).nodes # {}
    /\ \E k \in DOMAIN location["Region"] : location["Region"][k].parent # 1
    /\ \E k \in DOMAIN location["Province"] : AncestorAt(location, 3, k, 1) = 1

\* C18: in every reachable state every row has its parent row, and deleting
\* any stored node removes exactly that node and the rows whose ancestor chain
\* leads to it, leaving every other location row as it was.
C18_DeleteRemovesSubtree ==
    /\ ParentsExist(location)
    /\ \A i \in DOMAIN Levels : \A pk \in DOMAIN location[Levels[i]] :
          LET r == location_delete_outcome(i, pk) IN
          /\ ParentsExist(r.location)
          /\ \A j \in DOMAIN Levels :
                /\ DOMAIN r.location[Levels[j]] \subseteq DOMAIN location[Levels[j]]
                /\ \A k \in DOMAIN location[Levels[j]] :
                      IF j >= i /\ AncestorAt(location, j, k, i) = pk
                      THEN k \notin DOMAIN r.location[Levels[j]]
                      ELSE /\ k \in DOMAIN r.location[Levels[j]]
                           /\ r.location[Levels[j]][k] = location[Levels[j]][k]

\* C18 witness: Country 1 has just been destroyed; its region, province, city
\* and barangay are gone, Country 2 with its region and province is still there.
C18_Witness ==
    /\ last.op = "perform_destroy" /\ last.model = "Country" /\ last.status = 500
    /\ DOMAIN location["Country"] = {2}
    /\ DOMAIN location["Region"] = {2}
    /\ DOMAIN location["Province"] = {2}
    /\ DOMAIN location["City"] = {}
    /\ DOMAIN location["Barangay"] = {}

\* C19: in every reachable state deleting any CustomUser leaves no Buyer and
\* no Seller that refers to it, and deleting any Shop removes that Shop and
\* leaves the Seller and CustomUser tables as they were.
C19_CascadeOwnerToDependent ==
    /\ \A u \in DOMAIN customuser :
          LET r == customuser_delete_outcome(u) IN
          /\ u \notin DOMAIN r.customuser
          /\ \A b \in DOMAIN r.buyer : r.buyer[b].user # u
          /\ \A x \in DOMAIN r.seller : r.seller[x].user # u
    /\ \A h \in DOMAIN shop :
          LET r == shop_delete_outcome(h) IN
          /\ h \notin DOMAIN r.shop
          /\ r.seller = seller
          /\ r.customuser = customuser

\* C19 witness: the buyer's CustomUser has been deleted and its Buyer went
\* with it; the Shop has just been deleted and its Seller and the Seller's
\* CustomUser are still stored.
C19_Witness ==
    /\ last.op = "destroy" /\ last.model = "Shop"
    /\ 1 \notin DOMAIN customuser
    /\ DOMAIN buyer = {}
    /\ DOMAIN shop = {}
    /\ 1 \in DOMAIN seller
    /\ seller[1].user \in DOMAIN customuser

----------------------------------------------------------------------------
(* Properties of the role tag, the password policy and profile updates *)

\* C21: the CustomUser row inserted by a successful buyer create has
\* user_type "buyer", whatever user_type the nested user data carries.
C21_BuyerCreateRoleIsBuyer ==
    (last.op = "BuyerSerializer.create" /\ last.status = 201) =>
        customuser[last.user].user_type = "buyer"

\* C22: the user_type of every CustomUser row is one of USER_TYPE_CHOICES.
C22_RoleTagInChoices ==
    \A u \in DOMAIN customuser : customuser[u].user_type \in USER_TYPE_CHOICES

\* The raw password a stored hash was made from.
RawOf(encoded) == encoded[2]

\* C23: a registration (register_user, buyer create, seller create) whose
\* password is empty or fails the configured password validators is answered
\* 400 and inserts nothing; so the password of every row that a registration
\* has just inserted passes the validators.
C23_RegistrationEnforcesPasswordPolicy ==
    (/\ last.op \in {"register_user", "BuyerSerializer.create", "SellerSerializer.create"}
     /\ last.user # NoPk) =>
        validate_password(RawOf(customuser[last.user].password))

\* Row after differs from row before in no field outside named.
SameOutside(before, after, named) ==
    /\ DOMAIN after = DOMAIN before
    /\ \A f \in DOMAIN before \ named : after[f] = before[f]

\* Table after differs from table before in no row but k.
SameOtherRows(before, after, k) ==
    /\ DOMAIN after = DOMAIN before
    /\ \A j \in DOMAIN before \ {k} : after[j] = before[j]

\* The fields of the user row that a user patch names.
NamedUserFields(mobile_no, password) ==
    (IF mobile_no = NoMobile THEN {} ELSE {"mobile_no"}) \cup
    (IF password = NoPassword THEN {} ELSE {"password"})

C25_UpdateAllOrNothing ==
    [][(/\ last'.op \in {"BuyerSerializer.update", "SellerSerializer.update", "update_settings"}
        /\ last'.status = 500) =>
            (customuser' = customuser /\ buyer' = buyer /\ seller' = seller)]_vars

----------------------------------------------------------------------------
(* Properties of writes to the address hierarchy and of destroy requests *)

\* C26: in every reachable state every row below Country has its parent row
\* in the table of the level above; a create or a re-parenting update that
\* names a parent key with no row is answered 400 and leaves the tables as
\* they were.
C26_ParentAlwaysExists ==
    /\ ParentsExist(location)
    /\ [][/\ ParentsExist(location')
          /\ (last'.op \in {"perform_create", "perform_update"} /\ last'.status = 400) =>
                 location' = location]_vars

\* C26 witness: an update has just moved region 1 from country 1 to country 2.
C26_Witness ==
    /\ last.op = "perform_update"
    /\ last.status = 200
    /\ last.model = "Region"
    /\ 1 \in DOMAIN location["Region"]
    /\ location["Region"][1].parent = 2
    /\ 2 \in DOMAIN location["Country"]

\* C27: after a buyer destroy has answered 204, neither the Buyer row nor the
\* CustomUser row it was bound to is in its table.
C27_BuyerDestroyRemovesIdentity ==
    (last.op = "BuyerViewSet.perform_destroy" /\ last.status = 204) =>
        /\ last.profile \notin DOMAIN buyer
        /\ last.user \notin DOMAIN customuser

\* C28: the destroy of a Country row that is in the table is answered 204;
\* no other status is answered once the row has been deleted.
C28_CountryDestroyAnswersSuccess ==
    (/\ last.op = "perform_destroy"
     /\ last.model = "Country"
     /\ last.status # 404) => last.status = 204

\* C29: the two writing statements of a set_default request on a row of model
\* m owned by buyer b leave every row of another buyer and every row of the
\* other model as it was, insert and delete no row, and change no column but
\* is_default in the rows of buyer b in model m.
C29_SetDefaultFrame ==
    [][\A p \in Procs :
          (pc[p] \in {"update", "save"} /\ pc'[p] # pc[p]) =>
              \A m \in DefaultModels :
                  /\ DOMAIN objects'[m] = DOMAIN objects[m]
                  /\ \A k \in DOMAIN objects[m] :
                        IF m = call[p].model /\ objects[m][k].buyer = call[p].instance.buyer
                        THEN objects'[m][k] =
                                 [objects[m][k] EXCEPT !.is_default = objects'[m][k].is_default]
                        ELSE objects'[m][k] = objects[m][k]]_vars

\* C29 witness: a set_default on a shipping address has answered 200 while
\* the other buyer has a default shipping address and a default payment
\* method is stored.
C29_Witness ==
    \E p \in Procs :
        /\ pc[p] = "done"
        /\ status[p] = 200
        /\ call[p].model = "BuyerShippingAddress"
        /\ \E k \in DOMAIN objects["BuyerShippingAddress"] :
              /\ objects["BuyerShippingAddress"][k].buyer # call[p].instance.buyer
              /\ objects["BuyerShippingAddress"][k].is_default
        /\ \E k \in DOMAIN objects["BuyerPaymentMethod"] :
              objects["BuyerPaymentMethod"][k].is_default

\* The tables the collector of Model.delete() works on, as they are now.
Tables ==
    [location |-> location, customuser |-> customuser, buyer |-> buyer,
     seller |-> seller, shop |-> shop, objects |-> objects]

\* Every location foreign key of refs is null or the key of a row of t.
Resolved(t, refs) ==
    \A l \in LevelSet : refs[l] = NoPk \/ refs[l] \in DOMAIN t.location[l]

\* No foreign key of tables t points at a row that is not there.
NoDanglingReference(t) ==
    /\ ParentsExist(t.location)
    /\ \A u \in DOMAIN t.customuser : Resolved(t, t.customuser[u].location)
    /\ \A h \in DOMAIN t.shop :
          /\ Resolved(t, t.shop[h].location)
          /\ t.shop[h].seller \in DOMAIN t.seller
    /\ \A b \in DOMAIN t.buyer : t.buyer[b].user \in DOMAIN t.customuser
    /\ \A x \in DOMAIN t.seller : t.seller[x].user \in DOMAIN t.customuser
    /\ \A a \in DOMAIN t.objects["BuyerShippingAddress"] :
          /\ Resolved(t, t.objects["BuyerShippingAddress"][a].location)
          /\ t.objects["BuyerShippingAddress"][a].buyer \in DOMAIN t.buyer
    /\ \A a \in DOMAIN t.objects["BuyerPaymentMethod"] :
          t.objects["BuyerPaymentMethod"][a].buyer \in DOMAIN t.buyer

\* C30: in every reachable state no CustomUser, Shop or BuyerShippingAddress
\* refers to a location row that is not stored and no profile, shop, address
\* or payment method to an owner that is not stored; and the delete of any
\* stored location node leaves the tables so: the rows that referred to the
\* node or to a node below it are gone, and with each such CustomUser its
\* Buyer or Seller and their shops, addresses and payment methods.
C30_LocationDeleteCascadesToIdentities ==
    /\ NoDanglingReference(Tables)
    /\ \A i \in DOMAIN Levels : \A pk \in DOMAIN location[Levels[i]] :
          NoDanglingReference(location_delete_outcome(i, pk))

\* C30 witness: the destroy of a location node has just taken the buyer's
\* CustomUser with it, and with that the Buyer, its shipping address and its
\* payment method; the seller's CustomUser is still stored.
C30_Witness ==
    /\ last.op = "perform_destroy" /\ last.status \in {204, 500}
    /\ DOMAIN customuser = {2}
    /\ DOMAIN buyer = {}
    /\ DOMAIN objects["BuyerShippingAddress"] = {}
    /\ DOMAIN objects["BuyerPaymentMethod"] = {}
    /\ DOMAIN seller = {1}

====
